---- MODULE Spec2Model ----
(***************************************************************************)
(* The call orchestration of OrderCallAgent.tsx as a state machine: the    *)
(* React state of the component, the browser's table of pending timeouts,  *)
(* and the speech-synthesis queue with the completion callbacks it owes.   *)
(* One action per operator event (a button's onClick) and per callback     *)
(* (a timeout firing, an utterance's onend/onerror).  Time is counted in   *)
(* ticks of 100 ms, the common divisor of every delay in the source.       *)
(***************************************************************************)
EXTENDS Integers, Sequences, FiniteSets, TLC

VARIABLES
    orders,          \* useState<Order[]>: id -> [status, deliverySlot]
    selectedOrderId, \* useState<string | null>
    conversation,    \* useState<ConversationEntry[]>
    callState,       \* useState<CallState>
    callOutcome,     \* useState<CallOutcome | null>
    rescheduleSlot,  \* useState<string>
    agentMuted,      \* useState<boolean>
    timeouts,        \* pending window.setTimeout callbacks, in scheduling order
    utterances,      \* speechSynthesis: utterances whose onEnd is still owed
    isBrowser,       \* whether window.speechSynthesis exists
    session,         \* history: number of resetCall runs so far
    clicks,          \* history: number of operator events so far
    cleared          \* history: how many timeouts the last resetCall cancelled

vars == <<orders, selectedOrderId, conversation, callState, callOutcome,
          rescheduleSlot, agentMuted, timeouts, utterances, isBrowser,
          session, clicks, cleared>>

----------------------------------------------------------------------------
(* Bounds of the model *)

\* the operator clicks at most this many buttons in a behaviour
MaxClicks == 4
\* the operator's clicks in the behaviours of a single call
MaxCallClicks == 3
\* how many entries of the slot menu the operator ever picks from
MenuSize == 2

----------------------------------------------------------------------------
(* Data *)

Null == "null"
Undefined == "undefined"
NoSlot == ""

\* ids of the seeded registry (data/orders.ts), in list order
OrderIds == <<"OD1", "OD2">>
\* the delivery slot every seeded order starts with
SeedSlot == "seed slot"

RESCHEDULE_OPTIONS ==
    <<"Today, 7PM - 9PM", "Tomorrow, 9AM - 12PM", "Tomorrow, 2PM - 5PM",
      "Saturday, 11AM - 1PM">>

\* delays of the script in ticks of 100 ms
IntroDelay == 12
ItemsGap == 22
ConfirmAckDelay == 4
ConfirmThanksDelay == 20
ConfirmCompleteDelay == 25
RescheduleOfferDelay == 5
CancelAckDelay == 7
CancelCompleteDelay == 14
QueryDelay == 7
SlotAckDelay == 5
SlotThanksDelay == 20
SlotCompleteDelay == 23

initialOrders ==
    [i \in 1..Len(OrderIds) |->
        [id |-> OrderIds[i], status |-> "pending", deliverySlot |-> SeedSlot]]

\* orders.find((order) => order.id === selectedOrderId) ?? null
selectedOrder ==
    IF \E i \in 1..Len(orders) : orders[i].id = selectedOrderId
    THEN selectedOrderId
    ELSE Null

callInFlight == callState # "idle" /\ callState # "resolved"

----------------------------------------------------------------------------
(* Transcript, timeouts and speech *)

\* a message text: the template and the order data interpolated into it
Text(kind, order, slot) == [kind |-> kind, order |-> order, slot |-> slot]

\* setConversation((prev) => [entry, ...prev])
addMessage_prepend(conv, speaker, message, awaiting, s) ==
    <<[speaker |-> speaker, message |-> message,
       awaitingResponse |-> awaiting, session |-> s]>> \o conv

\* setConversation((prev) => [...prev, entry]); an absent awaitingResponse
\* is false, and the session is history
addMessage(conv, speaker, message, awaiting, s) ==
    Append(conv, [speaker |-> speaker, message |-> message,
                  awaitingResponse |-> awaiting, session |-> s])

\* window.setTimeout(callback, delay) without timeoutsRef.current.push(id)
setTimeoutTracked_noPush(tms, callback, delay, s) ==
    Append(tms, [callback |-> callback, rem |-> delay, tracked |-> FALSE,
                 session |-> s])

\* window.setTimeout(callback, delay) followed by timeoutsRef.current.push(id)
setTimeoutTracked(tms, callback, delay, s) ==
    Append(tms, [callback |-> callback, rem |-> delay, tracked |-> TRUE,
                 session |-> s])

\* scheduleAgentLine(text, delay, options)
scheduleAgentLine(tms, text, delay, options, s) ==
    setTimeoutTracked(tms,
        [kind |-> "line", text |-> text,
         awaitingResponse |-> options.awaitingResponse,
         markResolved |-> options.markResolved],
        delay, s)

\* window.setTimeout(() => completeCall(outcome, updater), delay) and the push
scheduleComplete(tms, order, outcome, updater, delay, s) ==
    setTimeoutTracked(tms,
        [kind |-> "complete", order |-> order, outcome |-> outcome,
         updater |-> updater],
        delay, s)

\* timeoutsRef.current.forEach(clearTimeout); timeoutsRef.current = []
clearTimeouts(tms) == SelectSeq(tms, LAMBDA t : ~t.tracked)

\* window.speechSynthesis.cancel(): speaking ceases at once; the interrupted
\* utterance's error event, and with it its onEnd callback, is still owed
cancel(utts) == [i \in 1..Len(utts) |-> [utts[i] EXCEPT !.playing = FALSE]]

\* stop() of useSpeechSynthesis
stop(utts) == IF ~isBrowser THEN utts ELSE cancel(utts)

\* an onEnd callback without the awaitingResponse branch
onEndState_neverAwaits(options) ==
    IF options.markResolved THEN "resolved" ELSE "speaking"

\* the onEnd callback scheduleAgentLine passes to speak
onEndState(options) ==
    IF options.markResolved THEN "resolved"
    ELSE IF options.awaitingResponse THEN "awaiting_response"
    ELSE "speaking"

\* speak(text, onEnd) without the cancel before the new utterance
speak_noCancel(utts, options, s) ==
    Append(utts,
           [awaitingResponse |-> options.awaitingResponse,
            markResolved |-> options.markResolved,
            playing |-> TRUE, session |-> s])

\* speak(text, onEnd) when speech synthesis exists: cancel, then a new utterance
speak(utts, options, s) ==
    Append(cancel(utts),
           [awaitingResponse |-> options.awaitingResponse,
            markResolved |-> options.markResolved,
            playing |-> TRUE, session |-> s])

Remove(seq, i) ==
    [j \in 1..(Len(seq) - 1) |-> IF j < i THEN seq[j] ELSE seq[j + 1]]

\* the least time left of any pending timeout
MinRem(tms) ==
    IF tms = <<>> THEN 0
    ELSE CHOOSE m \in {tms[i].rem : i \in 1..Len(tms)} :
            \A i \in 1..Len(tms) : tms[i].rem >= m

\* the pending timeouts after e ticks of 100 ms
Elapse(tms, e) == [i \in 1..Len(tms) |-> [tms[i] EXCEPT !.rem = @ - e]]

\* an interrupted utterance's error event is dispatched without delay: while
\* one is owed no time passes
ErrorOwed == \E i \in 1..Len(utterances) : ~utterances[i].playing

\* the times that can pass before the next event: up to the next timeout
Elapsable == IF ErrorOwed THEN {0} ELSE 0..MinRem(timeouts)

\* the times the operator lets pass before a click that schedules timeouts:
\* none (right after the last event) or all (right before the next timeout)
ClickAfter == {e \in Elapsable : e = 0 \/ e = MinRem(timeouts)}

\* one more operator event, within the bound
Click == clicks < MaxClicks /\ clicks' = clicks + 1

----------------------------------------------------------------------------
(* Operations of the component, as the values they leave *)

\* resetCall() whose loop clears only the first tracked timeout
resetCall_clearsOne ==
    [timeouts |-> IF timeouts = <<>> THEN <<>> ELSE Tail(timeouts),
     utterances |-> stop(utterances),
     conversation |-> <<>>,
     callState |-> "idle",
     callOutcome |-> Null,
     rescheduleSlot |-> NoSlot]

\* resetCall() without the clearTimeout loop
resetCall_keepsTimeouts ==
    [timeouts |-> timeouts,
     utterances |-> stop(utterances),
     conversation |-> <<>>,
     callState |-> "idle",
     callOutcome |-> Null,
     rescheduleSlot |-> NoSlot]

\* resetCall(): what each piece of call state is after it
resetCall ==
    [timeouts |-> clearTimeouts(timeouts),
     utterances |-> stop(utterances),
     conversation |-> <<>>,
     callState |-> "idle",
     callOutcome |-> Null,
     rescheduleSlot |-> NoSlot]

\* an orderUpdater that leaves the status as it is
applyUpdater_keepsStatus(order, updater) ==
    IF updater.deliverySlot = Undefined
    THEN order
    ELSE [order EXCEPT !.deliverySlot = updater.deliverySlot]

\* the orderUpdater closures: a status, and a deliverySlot or none
Updater(status, slot) == [status |-> status, deliverySlot |-> slot]

\* orderUpdater(order)
applyUpdater(order, updater) ==
    IF updater.deliverySlot = Undefined
    THEN [order EXCEPT !.status = updater.status]
    ELSE [order EXCEPT !.status = updater.status,
                       !.deliverySlot = updater.deliverySlot]

\* completeCall whose setOrders maps the updater over every order
completeCall_everyOrder(order, outcome, updater) ==
    [orders |-> [i \in 1..Len(orders) |-> applyUpdater(orders[i], updater)],
     callOutcome |-> outcome,
     callState |-> "resolved"]

\* completeCall without setCallOutcome(outcome)
completeCall_keepsOutcome(order, outcome, updater) ==
    [orders |-> [i \in 1..Len(orders) |->
                    IF orders[i].id = order
                    THEN applyUpdater(orders[i], updater)
                    ELSE orders[i]],
     callOutcome |-> callOutcome,
     callState |-> "resolved"]

\* completeCall without setCallState("resolved")
completeCall_keepsState(order, outcome, updater) ==
    [orders |-> [i \in 1..Len(orders) |->
                    IF orders[i].id = order
                    THEN applyUpdater(orders[i], updater)
                    ELSE orders[i]],
     callOutcome |-> outcome,
     callState |-> callState]

\* completeCall(outcome, orderUpdater) with the selectedOrder of its closure
completeCall(order, outcome, updater) ==
    [orders |-> [i \in 1..Len(orders) |->
                    IF orders[i].id = order
                    THEN applyUpdater(orders[i], updater)
                    ELSE orders[i]],
     callOutcome |-> outcome,
     callState |-> "resolved"]

\* the record of the order with this id
OrderOf(id) == orders[CHOOSE i \in 1..Len(orders) : orders[i].id = id]

\* the options of scheduleAgentLine; an absent flag counts as false
Options(awaiting, resolved) ==
    [awaitingResponse |-> awaiting, markResolved |-> resolved]

----------------------------------------------------------------------------
(* Initial state: the component after its first render *)

\* the registries the component is rendered with: the seeded one, or none
\* (initialOrders[0]?.id ?? null leaves the selection null)
Registries == {initialOrders, <<>>}

Init ==
    /\ orders \in Registries
    /\ selectedOrderId = IF Len(orders) > 0 THEN orders[1].id ELSE Null
    /\ conversation = <<>>
    /\ callState = "idle"
    /\ callOutcome = Null
    /\ rescheduleSlot = NoSlot
    /\ agentMuted = FALSE
    /\ timeouts = <<>>
    /\ utterances = <<>>
    /\ isBrowser \in BOOLEAN
    /\ session = 0
    /\ clicks = 0
    /\ cleared = 0

----------------------------------------------------------------------------
(* Operator events *)

\* onClick of an order button without the callInFlight check
orderOnClick_noGuard(id) ==
    /\ Click
    /\ selectedOrderId' = id
    /\ timeouts' = resetCall.timeouts
    /\ utterances' = resetCall.utterances
    /\ conversation' = resetCall.conversation
    /\ callState' = resetCall.callState
    /\ callOutcome' = resetCall.callOutcome
    /\ rescheduleSlot' = resetCall.rescheduleSlot
    /\ session' = session + 1
    /\ cleared' = Len(timeouts) - Len(resetCall.timeouts)
    /\ UNCHANGED <<orders, agentMuted, isBrowser>>

\* onClick of an order button: ignored while a call is in flight
orderOnClick(id) ==
    IF callInFlight
    THEN UNCHANGED vars
    ELSE /\ Click
         /\ selectedOrderId' = id
         /\ timeouts' = resetCall.timeouts
         /\ utterances' = resetCall.utterances
         /\ conversation' = resetCall.conversation
         /\ callState' = resetCall.callState
         /\ callOutcome' = resetCall.callOutcome
         /\ rescheduleSlot' = resetCall.rescheduleSlot
         /\ session' = session + 1
         /\ cleared' = Len(timeouts) - Len(resetCall.timeouts)
         /\ UNCHANGED <<orders, agentMuted, isBrowser>>

\* an End Call whose resetCall also runs setAgentMuted(false)
endCall_unmutes ==
    /\ selectedOrder # Null
    /\ callInFlight
    /\ Click
    /\ timeouts' = resetCall.timeouts
    /\ utterances' = resetCall.utterances
    /\ conversation' = resetCall.conversation
    /\ callState' = resetCall.callState
    /\ callOutcome' = resetCall.callOutcome
    /\ rescheduleSlot' = resetCall.rescheduleSlot
    /\ session' = session + 1
    /\ cleared' = Len(timeouts) - Len(resetCall.timeouts)
    /\ agentMuted' = FALSE
    /\ UNCHANGED <<orders, selectedOrderId, isBrowser>>

\* the End Call button (shown while a call is in flight): resetCall
endCall ==
    /\ selectedOrder # Null
    /\ callInFlight
    /\ Click
    /\ timeouts' = resetCall.timeouts
    /\ utterances' = resetCall.utterances
    /\ conversation' = resetCall.conversation
    /\ callState' = resetCall.callState
    /\ callOutcome' = resetCall.callOutcome
    /\ rescheduleSlot' = resetCall.rescheduleSlot
    /\ session' = session + 1
    /\ cleared' = Len(timeouts) - Len(resetCall.timeouts)
    /\ UNCHANGED <<orders, selectedOrderId, agentMuted, isBrowser>>

\* startCall() with the delays of its two lines exchanged
startCall_swappedDelays ==
    /\ selectedOrder # Null
    /\ ~callInFlight
    /\ Click
    /\ LET s == session + 1
           o == selectedOrder
       IN /\ utterances' = resetCall.utterances
          /\ callOutcome' = resetCall.callOutcome
          /\ rescheduleSlot' = resetCall.rescheduleSlot
          /\ callState' = "dialing"
          /\ conversation' =
                addMessage(resetCall.conversation, "system",
                           Text("dialing", o, NoSlot), FALSE, s)
          /\ timeouts' =
                scheduleAgentLine(
                    scheduleAgentLine(resetCall.timeouts,
                        Text("intro", o, NoSlot), IntroDelay + ItemsGap,
                        Options(FALSE, FALSE), s),
                    Text("items", o, OrderOf(o).deliverySlot),
                    IntroDelay,
                    Options(TRUE, FALSE), s)
          /\ session' = s
          /\ cleared' = Len(timeouts) - Len(resetCall.timeouts)
    /\ UNCHANGED <<orders, selectedOrderId, agentMuted, isBrowser>>

\* startCall(), from Start Confirmation Call or Replay Script
startCall ==
    /\ selectedOrder # Null
    /\ ~callInFlight
    /\ Click
    /\ LET s == session + 1
           o == selectedOrder
       IN /\ utterances' = resetCall.utterances
          /\ callOutcome' = resetCall.callOutcome
          /\ rescheduleSlot' = resetCall.rescheduleSlot
          /\ callState' = "dialing"
          /\ conversation' =
                addMessage(resetCall.conversation, "system",
                           Text("dialing", o, NoSlot), FALSE, s)
          /\ timeouts' =
                scheduleAgentLine(
                    scheduleAgentLine(resetCall.timeouts,
                        Text("intro", o, NoSlot), IntroDelay,
                        Options(FALSE, FALSE), s),
                    Text("items", o, OrderOf(o).deliverySlot),
                    IntroDelay + ItemsGap,
                    Options(TRUE, FALSE), s)
          /\ session' = s
          /\ cleared' = Len(timeouts) - Len(resetCall.timeouts)
    /\ UNCHANGED <<orders, selectedOrderId, agentMuted, isBrowser>>

customerLines ==
    [confirm |-> "Yes, please go ahead.",
     reschedule |-> "Could we deliver in a different slot?",
     cancel |-> "I want to cancel this order.",
     query |-> "Can you tell me the payment details once more?"]

ResponseTypes == {"confirm", "reschedule", "cancel", "query"}

\* handleCustomerResponse(type) whose query follow-up is flagged markResolved
\* instead of awaitingResponse
handleCustomerResponse_queryResolves(type, e) ==
    /\ selectedOrder # Null
    /\ callState = "awaiting_response"
    /\ LET o == selectedOrder
           s == session
           now == Elapse(timeouts, e)
       IN /\ conversation' =
                addMessage(conversation, "customer",
                           Text(customerLines[type], NoSlot, NoSlot), FALSE, s)
          /\ CASE type = "confirm" ->
                    /\ timeouts' =
                          scheduleComplete(
                            scheduleAgentLine(
                              scheduleAgentLine(now,
                                Text("confirm ack", NoSlot, NoSlot),
                                ConfirmAckDelay, Options(FALSE, FALSE), s),
                              Text("confirm thanks", NoSlot, NoSlot),
                              ConfirmThanksDelay, Options(FALSE, TRUE), s),
                            o, "confirmed",
                            Updater("confirmed", Undefined),
                            ConfirmCompleteDelay, s)
                    /\ UNCHANGED <<callState, callOutcome, rescheduleSlot>>
               [] type = "reschedule" ->
                    /\ callState' = "awaiting_response"
                    /\ callOutcome' = "rescheduled"
                    /\ rescheduleSlot' = NoSlot
                    /\ timeouts' =
                          scheduleAgentLine(now,
                            Text("slot offer", NoSlot, NoSlot),
                            RescheduleOfferDelay, Options(TRUE, FALSE), s)
               [] type = "cancel" ->
                    /\ timeouts' =
                          scheduleComplete(
                            scheduleAgentLine(now,
                              Text("cancel ack", NoSlot, NoSlot),
                              CancelAckDelay, Options(FALSE, TRUE), s),
                            o, "cancelled",
                            Updater("cancelled", Undefined),
                            CancelCompleteDelay, s)
                    /\ UNCHANGED <<callState, callOutcome, rescheduleSlot>>
               [] type = "query" ->
                    /\ timeouts' =
                          scheduleAgentLine(now,
                            Text("payment details", o, NoSlot),
                            QueryDelay, Options(FALSE, TRUE), s)
                    /\ UNCHANGED <<callState, callOutcome, rescheduleSlot>>
    /\ Click
    /\ UNCHANGED <<orders, selectedOrderId, agentMuted, utterances, isBrowser,
                   session, cleared>>

\* handleCustomerResponse(type), from the panel shown in awaiting_response,
\* clicked e ticks after the last event
handleCustomerResponse(type, e) ==
    /\ selectedOrder # Null
    /\ callState = "awaiting_response"
    /\ LET o == selectedOrder
           s == session
           now == Elapse(timeouts, e)
       IN /\ conversation' =
                addMessage(conversation, "customer",
                           Text(customerLines[type], NoSlot, NoSlot), FALSE, s)
          /\ CASE type = "confirm" ->
                    /\ timeouts' =
                          scheduleComplete(
                            scheduleAgentLine(
                              scheduleAgentLine(now,
                                Text("confirm ack", NoSlot, NoSlot),
                                ConfirmAckDelay, Options(FALSE, FALSE), s),
                              Text("confirm thanks", NoSlot, NoSlot),
                              ConfirmThanksDelay, Options(FALSE, TRUE), s),
                            o, "confirmed",
                            Updater("confirmed", Undefined),
                            ConfirmCompleteDelay, s)
                    /\ UNCHANGED <<callState, callOutcome, rescheduleSlot>>
               [] type = "reschedule" ->
                    /\ callState' = "awaiting_response"
                    /\ callOutcome' = "rescheduled"
                    /\ rescheduleSlot' = NoSlot
                    /\ timeouts' =
                          scheduleAgentLine(now,
                            Text("slot offer", NoSlot, NoSlot),
                            RescheduleOfferDelay, Options(TRUE, FALSE), s)
               [] type = "cancel" ->
                    /\ timeouts' =
                          scheduleComplete(
                            scheduleAgentLine(now,
                              Text("cancel ack", NoSlot, NoSlot),
                              CancelAckDelay, Options(FALSE, TRUE), s),
                            o, "cancelled",
                            Updater("cancelled", Undefined),
                            CancelCompleteDelay, s)
                    /\ UNCHANGED <<callState, callOutcome, rescheduleSlot>>
               [] type = "query" ->
                    /\ timeouts' =
                          scheduleAgentLine(now,
                            Text("payment details", o, NoSlot),
                            QueryDelay, Options(TRUE, FALSE), s)
                    /\ UNCHANGED <<callState, callOutcome, rescheduleSlot>>
    /\ Click
    /\ UNCHANGED <<orders, selectedOrderId, agentMuted, utterances, isBrowser,
                   session, cleared>>

\* handleRescheduleSelection(slot) committing the menu's first slot instead
handleRescheduleSelection_firstSlot(slot, e) ==
    /\ selectedOrder # Null
    /\ callOutcome = "rescheduled"
    /\ rescheduleSlot = NoSlot
    /\ LET o == selectedOrder
           s == session
           now == Elapse(timeouts, e)
       IN /\ rescheduleSlot' = slot
          /\ conversation' =
                addMessage(conversation, "customer",
                           Text("move to", NoSlot, slot), FALSE, s)
          /\ timeouts' =
                scheduleComplete(
                  scheduleAgentLine(
                    scheduleAgentLine(now,
                      Text("slot ack", NoSlot, slot),
                      SlotAckDelay, Options(FALSE, FALSE), s),
                    Text("slot thanks", NoSlot, NoSlot),
                    SlotThanksDelay, Options(FALSE, TRUE), s),
                  o, "rescheduled",
                  Updater("confirmed", RESCHEDULE_OPTIONS[1]),
                  SlotCompleteDelay, s)
    /\ Click
    /\ UNCHANGED <<orders, selectedOrderId, callState, callOutcome, agentMuted,
                   utterances, isBrowser, session, cleared>>

\* handleRescheduleSelection(slot), from the menu shown while the outcome is
\* rescheduled and no slot is chosen, clicked e ticks after the last event
handleRescheduleSelection(slot, e) ==
    /\ selectedOrder # Null
    /\ callOutcome = "rescheduled"
    /\ rescheduleSlot = NoSlot
    /\ LET o == selectedOrder
           s == session
           now == Elapse(timeouts, e)
       IN /\ rescheduleSlot' = slot
          /\ conversation' =
                addMessage(conversation, "customer",
                           Text("move to", NoSlot, slot), FALSE, s)
          /\ timeouts' =
                scheduleComplete(
                  scheduleAgentLine(
                    scheduleAgentLine(now,
                      Text("slot ack", NoSlot, slot),
                      SlotAckDelay, Options(FALSE, FALSE), s),
                    Text("slot thanks", NoSlot, NoSlot),
                    SlotThanksDelay, Options(FALSE, TRUE), s),
                  o, "rescheduled",
                  Updater("confirmed", slot),
                  SlotCompleteDelay, s)
    /\ Click
    /\ UNCHANGED <<orders, selectedOrderId, callState, callOutcome, agentMuted,
                   utterances, isBrowser, session, cleared>>

\* startCall, handleCustomerResponse, handleRescheduleSelection or
\* escalateToSupport called with no selected order: if (!selectedOrder) return
returnNoOrder ==
    /\ selectedOrder = Null
    /\ Click
    /\ UNCHANGED <<orders, selectedOrderId, conversation, callState,
                   callOutcome, rescheduleSlot, agentMuted, timeouts,
                   utterances, isBrowser, session, cleared>>

\* escalateToSupport() without its check of selectedOrder
escalateToSupport_noGuard ==
    /\ LET done == completeCall(selectedOrder, "needs_support",
                     Updater("requires_followup", Undefined))
       IN /\ conversation' =
                addMessage(conversation, "agent",
                           Text("escalation", NoSlot, NoSlot), FALSE, session)
          /\ orders' = done.orders
          /\ callOutcome' = done.callOutcome
          /\ callState' = done.callState
    /\ Click
    /\ UNCHANGED <<selectedOrderId, rescheduleSlot, agentMuted, timeouts,
                   utterances, isBrowser, session, cleared>>

\* escalateToSupport(), from the Escalate to Support button
escalateToSupport ==
    /\ selectedOrder # Null
    /\ LET done == completeCall(selectedOrder, "needs_support",
                     Updater("requires_followup", Undefined))
       IN /\ conversation' =
                addMessage(conversation, "agent",
                           Text("escalation", NoSlot, NoSlot), FALSE, session)
          /\ orders' = done.orders
          /\ callOutcome' = done.callOutcome
          /\ callState' = done.callState
    /\ Click
    /\ UNCHANGED <<selectedOrderId, rescheduleSlot, agentMuted, timeouts,
                   utterances, isBrowser, session, cleared>>

\* toggleMute() that also cancels the pending timeouts when it mutes
toggleMute_clearsTimeouts ==
    /\ selectedOrder # Null
    /\ callInFlight
    /\ LET next == ~agentMuted
       IN /\ agentMuted' = next
          /\ IF next
             THEN /\ utterances' = stop(utterances)
                  /\ callState' = "muted"
                  /\ timeouts' = clearTimeouts(timeouts)
             ELSE /\ utterances' = utterances
                  /\ callState' = IF Len(conversation) # 0
                                  THEN "awaiting_response"
                                  ELSE "dialing"
                  /\ timeouts' = timeouts
    /\ Click
    /\ UNCHANGED <<orders, selectedOrderId, conversation, callOutcome,
                   rescheduleSlot, isBrowser, session, cleared>>

\* toggleMute(), from the Mute Agent / Unmute Agent button of a call in flight,
\* with the effect on agentMuted that runs after it
toggleMute ==
    /\ selectedOrder # Null
    /\ callInFlight
    /\ LET next == ~agentMuted
       IN /\ agentMuted' = next
          /\ IF next
             THEN /\ utterances' = stop(utterances)
                  /\ callState' = "muted"
             ELSE /\ utterances' = utterances
                  /\ callState' = IF Len(conversation) # 0
                                  THEN "awaiting_response"
                                  ELSE "dialing"
    /\ Click
    /\ UNCHANGED <<orders, selectedOrderId, conversation, callOutcome,
                   rescheduleSlot, timeouts, isBrowser, session, cleared>>

----------------------------------------------------------------------------
(* Callbacks *)

\* the timeout that fires next: the one with the least time left, the earliest
\* scheduled among equals; time passes only once the owed error events ran
Due(i) ==
    /\ i \in 1..Len(timeouts)
    /\ \A j \in 1..Len(timeouts) :
          \/ timeouts[j].rem > timeouts[i].rem
          \/ (timeouts[j].rem = timeouts[i].rem /\ j >= i)
    /\ timeouts[i].rem \in Elapsable

\* the timeouts left when timeout i has fired, at its time
Fired(i) == Elapse(Remove(timeouts, i), timeouts[i].rem)

\* the callback scheduleAgentLine gave to setTimeout
agentLineTimeout ==
    \E i \in 1..Len(timeouts) :
        /\ Due(i)
        /\ timeouts[i].callback.kind = "line"
        /\ LET cb == timeouts[i].callback
               s == timeouts[i].session
           IN /\ conversation' =
                    addMessage(conversation, "agent", cb.text,
                               cb.awaitingResponse, s)
              /\ IF ~isBrowser
                 THEN /\ callState' = onEndState(cb)
                      /\ utterances' = utterances
                 ELSE /\ callState' = "speaking"
                      /\ utterances' = speak(utterances, cb, s)
        /\ timeouts' = Fired(i)
        /\ UNCHANGED <<orders, selectedOrderId, callOutcome, rescheduleSlot,
                       agentMuted, isBrowser, session, clicks, cleared>>

\* the callback () => completeCall(outcome, updater) given to setTimeout
completeCallTimeout ==
    \E i \in 1..Len(timeouts) :
        /\ Due(i)
        /\ timeouts[i].callback.kind = "complete"
        /\ LET cb == timeouts[i].callback
               done == completeCall(cb.order, cb.outcome, cb.updater)
           IN /\ orders' = done.orders
              /\ callOutcome' = done.callOutcome
              /\ callState' = done.callState
        /\ timeouts' = Fired(i)
        /\ UNCHANGED <<selectedOrderId, conversation, rescheduleSlot,
                       agentMuted, utterances, isBrowser, session, clicks, cleared>>

\* utterance.onend / utterance.onerror: the oldest owed completion runs onEnd
utteranceEnd ==
    /\ utterances # <<>>
    /\ callState' = onEndState(Head(utterances))
    /\ utterances' = Tail(utterances)
    /\ UNCHANGED <<orders, selectedOrderId, conversation, callOutcome,
                   rescheduleSlot, agentMuted, timeouts, isBrowser, session,
                   clicks, cleared>>

----------------------------------------------------------------------------
(* Specification *)

Operator ==
    \/ \E i \in 1..Len(orders) : orderOnClick(orders[i].id)
    \/ endCall
    \/ startCall
    \/ \E type \in ResponseTypes, e \in ClickAfter :
          handleCustomerResponse(type, e)
    \/ \E i \in 1..MenuSize, e \in ClickAfter :
          handleRescheduleSelection(RESCHEDULE_OPTIONS[i], e)
    \/ escalateToSupport
    \/ toggleMute
    \/ returnNoOrder

Callback ==
    \/ agentLineTimeout
    \/ completeCallTimeout
    \/ utteranceEnd

Next == Operator \/ Callback

Spec == Init /\ [][Next]_vars

\* the event loop runs every due timeout, and every utterance ends or fails
Fairness ==
    /\ WF_vars(agentLineTimeout)
    /\ WF_vars(completeCallTimeout)
    /\ WF_vars(utteranceEnd)

\* the behaviours in which no call, once started, is reset: resetCall runs only
\* in the idle state, before startCall has scheduled anything
IdleReset ==
    /\ clicks < MaxCallClicks
    /\ callState = "idle"
    /\ \/ \E i \in 1..Len(orders) : orderOnClick(orders[i].id)
       \/ startCall

InCall ==
    /\ clicks < MaxCallClicks
    /\ \/ \E type \in ResponseTypes, e \in ClickAfter :
             handleCustomerResponse(type, e)
       \/ \E i \in 1..MenuSize, e \in ClickAfter :
             handleRescheduleSelection(RESCHEDULE_OPTIONS[i], e)
       \/ escalateToSupport
       \/ toggleMute

OneCallNext == IdleReset \/ InCall \/ Callback

OneCallSpec == Init /\ [][OneCallNext]_vars /\ Fairness

----------------------------------------------------------------------------
(* Properties *)

Last(seq) == seq[Len(seq)]

\* the step ran resetCall
ResetStep == session' = session + 1

\* the step appended one entry to the transcript
Appended ==
    /\ Len(conversation') = Len(conversation) + 1
    /\ SubSeq(conversation', 1, Len(conversation)) = conversation

\* the step was a callback of session s: a timeout of s fired, or an utterance
\* of s ended
CallbackOf(s) ==
    /\ clicks' = clicks
    /\ \/ \E i \in 1..Len(timeouts) :
             Due(i) /\ timeouts[i].session = s /\ timeouts' = Fired(i)
       \/ /\ utterances # <<>>
          /\ Head(utterances).session = s
          /\ utterances' = Tail(utterances)

\* C1: every step that runs resetCall (End Call, an order click, the start of
\* startCall) leaves the outcome none, the slot cleared and no timeout of the
\* prior session; the transcript is empty and the state idle, or, inside
\* startCall, the transcript is the new session's dialing line alone and the
\* state is dialing.
C1_ResetClears ==
    [][ResetStep =>
        /\ callOutcome' = Null
        /\ rescheduleSlot' = NoSlot
        /\ \A i \in 1..Len(timeouts') : timeouts'[i].session = session'
        /\ \/ /\ conversation' = <<>>
              /\ callState' = "idle"
              /\ timeouts' = <<>>
           \/ /\ startCall
              /\ Len(conversation') = 1
              /\ conversation'[1].speaker = "system"
              /\ conversation'[1].session = session'
              /\ callState' = "dialing"]_vars

\* a reset has just cancelled pending timeouts of a call whose line was playing
C1_Witness ==
    /\ cleared > 0
    /\ callState = "idle"
    /\ conversation = <<>>
    /\ timeouts = <<>>
    /\ \E i \in 1..Len(utterances) : utterances[i].session < session

\* C2: every pending timeout and every transcript entry belongs to the current
\* session, and no callback appends to an empty transcript: after resetCall it
\* stays empty until the operator's next click.
C2_NoOldLine ==
    /\ [](/\ \A i \in 1..Len(timeouts) : timeouts[i].session = session
          /\ \A i \in 1..Len(conversation) : conversation[i].session = session)
    /\ [][conversation = <<>> /\ clicks' = clicks => conversation' = <<>>]_vars

\* a startCall replaced a session with pending timeouts, and a timeout of the
\* new session has delivered its line
C2_Witness ==
    /\ cleared > 0
    /\ session > 1
    /\ \E i \in 1..Len(conversation) :
          /\ conversation[i].speaker = "agent"
          /\ conversation[i].message.kind = "intro"
          /\ conversation[i].session = session

\* C3: a callback of an earlier session (a timeout, or the completion of an
\* utterance, also one that resetCall interrupted) changes neither the call
\* state, the outcome, the slot nor an order.
C3_NoStaleCallback ==
    [][(\E s \in 0..MaxClicks : s < session /\ CallbackOf(s)) =>
        UNCHANGED <<callState, callOutcome, rescheduleSlot, orders>>]_vars

\* C4: escalateToSupport can run in every state with a selected order, and every
\* run leaves outcome needs_support, the selected order requires_followup and
\* the state resolved, and appends exactly the one agent line of the escalation.
C4_Escalation ==
    /\ [](selectedOrder # Null /\ clicks < MaxClicks => ENABLED escalateToSupport)
    /\ [][escalateToSupport =>
            /\ callOutcome' = "needs_support"
            /\ callState' = "resolved"
            /\ \A i \in 1..Len(orders') :
                  orders'[i].id = selectedOrderId =>
                      orders'[i].status = "requires_followup"
            /\ Appended
            /\ Last(conversation').speaker = "agent"
            /\ Last(conversation').message.kind = "escalation"]_vars

\* an escalation in the middle of a script, in a muted call with timeouts pending
C4_Witness ==
    /\ callState = "resolved"
    /\ callOutcome = "needs_support"
    /\ conversation # <<>>
    /\ Last(conversation).message.kind = "escalation"
    /\ Len(conversation) > 1
    /\ agentMuted
    /\ timeouts # <<>>

\* a completion of this outcome for order o is scheduled
CompletePending(o, outcome) ==
    \E i \in 1..Len(timeouts) :
        /\ timeouts[i].callback.kind = "complete"
        /\ timeouts[i].callback.order = o
        /\ timeouts[i].callback.outcome = outcome

\* the call for order o has completed with this outcome and status
Completed(o, outcome, status) ==
    /\ \E i \in 1..Len(orders) : orders[i].id = o
    /\ OrderOf(o).status = status
    /\ callOutcome = outcome
    /\ callState = "resolved"

OrderIdSet == {OrderIds[i] : i \in 1..Len(OrderIds)}

\* C5: in a call that is not reset, once "confirm" is chosen for order o, the
\* order becomes confirmed with outcome confirmed and state resolved.
C5_ConfirmCompletes ==
    \A o \in OrderIdSet :
        CompletePending(o, "confirmed")
            ~> Completed(o, "confirmed", "confirmed")

\* the confirm branch has run to its end
C5_Witness ==
    /\ Completed(selectedOrderId, "confirmed", "confirmed")
    /\ \E i \in 1..Len(conversation) :
          conversation[i].message.kind = customerLines.confirm
    /\ Last(conversation).message.kind = "confirm thanks"

\* C6: in a call that is not reset, once "cancel" is chosen for order o, the
\* order becomes cancelled with outcome cancelled and state resolved.
C6_CancelCompletes ==
    \A o \in OrderIdSet :
        CompletePending(o, "cancelled")
            ~> Completed(o, "cancelled", "cancelled")

\* the cancel branch has run to its end
C6_Witness ==
    /\ Completed(selectedOrderId, "cancelled", "cancelled")
    /\ \E i \in 1..Len(conversation) :
          conversation[i].message.kind = customerLines.cancel
    /\ Last(conversation).message.kind = "cancel ack"

\* slot S is picked: the menu's choice is recorded and its completion scheduled
SlotPicked(o, S) ==
    /\ rescheduleSlot = S
    /\ CompletePending(o, "rescheduled")

\* number of completions scheduled
NumComplete(tms) ==
    Cardinality({i \in 1..Len(tms) : tms[i].callback.kind = "complete"})

\* C7: in a call that is not reset, once slot S is picked for order o after
\* "reschedule", the order becomes confirmed with deliverySlot S, outcome
\* rescheduled and state resolved; the reschedule response itself changes no
\* order and schedules no completion.
C7_RescheduleCompletes ==
    /\ \A o \in OrderIdSet, i \in 1..MenuSize :
          SlotPicked(o, RESCHEDULE_OPTIONS[i])
            ~> (/\ Completed(o, "rescheduled", "confirmed")
                /\ OrderOf(o).deliverySlot = RESCHEDULE_OPTIONS[i])
    /\ [][(/\ Appended
           /\ Last(conversation').message.kind = customerLines.reschedule)
          => (/\ orders' = orders
              /\ NumComplete(timeouts') = NumComplete(timeouts)
              /\ callOutcome' = "rescheduled"
              /\ rescheduleSlot' = NoSlot)]_vars

\* the reschedule branch has run to its end with the menu's second slot
C7_Witness ==
    /\ Completed(selectedOrderId, "rescheduled", "confirmed")
    /\ OrderOf(selectedOrderId).deliverySlot = RESCHEDULE_OPTIONS[2]
    /\ rescheduleSlot = RESCHEDULE_OPTIONS[2]
    /\ \E i \in 1..Len(conversation) :
          conversation[i].message.kind = customerLines.reschedule
    /\ Last(conversation).message.kind = "slot thanks"

\* the transcript holds entry kind k of order o at position i
LineAt(i, k, o) ==
    /\ i \in 1..Len(conversation)
    /\ conversation[i].message.kind = k
    /\ conversation[i].message.order = o

\* the opening of the script for order o: dialing, then intro, then items
Opening(o) ==
    /\ LineAt(1, "dialing", o)
    /\ conversation[1].speaker = "system"
    /\ \E i, j \in 2..Len(conversation) :
          /\ i < j
          /\ LineAt(i, "intro", o)
          /\ conversation[i].speaker = "agent"
          /\ LineAt(j, "items", o)
          /\ conversation[j].speaker = "agent"
          /\ conversation[j].awaitingResponse = TRUE

\* C8: startCall for order o leaves the system dialing line as the only entry,
\* with state dialing; the items line is never in the transcript without the
\* intro line before it, and it carries awaitingResponse; and in a call that is
\* not reset the opening is delivered in full and the state reaches
\* awaiting_response.
C8_OpeningInOrder ==
    /\ [][startCall =>
            /\ Len(conversation') = 1
            /\ LineAt(1, "dialing", selectedOrderId)'
            /\ conversation'[1].speaker = "system"
            /\ callState' = "dialing"]_vars
    /\ [](\A j \in 1..Len(conversation) :
            conversation[j].message.kind = "items" =>
                /\ conversation[j].awaitingResponse = TRUE
                /\ LineAt(j, "items", selectedOrderId)
                /\ LineAt(1, "dialing", selectedOrderId)
                /\ \E i \in 2..(j - 1) : LineAt(i, "intro", selectedOrderId))
    /\ \A o \in OrderIdSet :
          (Len(conversation) = 1 /\ LineAt(1, "dialing", o))
            ~> (Opening(o) /\ callState = "awaiting_response")

\* the opening was spoken in full and the call waits for the customer
C8_Witness ==
    /\ isBrowser
    /\ Opening(selectedOrderId)
    /\ Len(conversation) = 3
    /\ callState = "awaiting_response"
    /\ timeouts = <<>>

\* C9: the state enters awaiting_response only with no timeout pending, so that
\* only a timeout scheduled by a response chosen in awaiting_response can move
\* the state on.
C9_NoTimerAtEntry ==
    [][callState # "awaiting_response" /\ callState' = "awaiting_response"
        => timeouts' = <<>>]_vars

\* C10: a step that toggles the mute flag leaves the transcript, the outcome,
\* the slot, the orders, the selection and the pending timeouts as they are;
\* muting sets the state to muted and leaves no utterance playing.
C10_MuteFrame ==
    [][agentMuted' # agentMuted =>
        /\ UNCHANGED <<conversation, callOutcome, rescheduleSlot, orders,
                       selectedOrderId, timeouts>>
        /\ agentMuted' =>
              /\ callState' = "muted"
              /\ \A i \in 1..Len(utterances') : ~utterances'[i].playing]_vars

\* the agent was muted while a line was playing and timeouts were pending
C10_Witness ==
    /\ agentMuted
    /\ callState = "muted"
    /\ timeouts # <<>>
    /\ Len(conversation) > 1
    /\ utterances # <<>>

\* the response panel is offered: a line that asks the customer was delivered
Asked == \E i \in 1..Len(conversation) : conversation[i].awaitingResponse

\* C11: a step that toggles the mute flag never opens the response panel at a
\* script position where no line has asked the customer yet; in a call that is
\* never reset the panel opens, without a toggle, only once such a line is in
\* the transcript.
C11_ToggleKeepsPanel ==
    [][agentMuted' # agentMuted /\ callState' = "awaiting_response"
        => Asked]_vars

\* C12: while the mute flag is true no utterance is playing, also after a
\* timeout has delivered an agent line.
C12_SilentWhileMuted ==
    agentMuted => \A i \in 1..Len(utterances) : ~utterances[i].playing

\* C13: unmuting leaves the state speaking when the transcript has a line and
\* dialing when it is empty, never awaiting_response.
C13_UnmuteState ==
    [][agentMuted /\ ~agentMuted' =>
        callState' = IF Len(conversation) > 0 THEN "speaking" ELSE "dialing"]_vars

\* the call state that resetCall writes, as it is now
CallFields ==
    [timeouts |-> timeouts,
     utterances |-> utterances,
     conversation |-> conversation,
     callState |-> callState,
     callOutcome |-> callOutcome,
     rescheduleSlot |-> rescheduleSlot]

\* C14: the state a resetCall leaves (End Call, an order click) is a fixed point
\* of resetCall: run again at once it leaves transcript, state, outcome, slot,
\* pending timeouts and owed utterances as they are; and resetCall itself leaves
\* the orders and the mute flag alone.
C14_ResetIdempotent ==
    [][ResetStep /\ ~startCall =>
        /\ CallFields' = resetCall
        /\ resetCall' = CallFields'
        /\ UNCHANGED <<orders, agentMuted>>]_vars

\* End Call interrupted a playing line, and an order click reset the call again
\* before the interrupted utterance's completion ran
C14_Witness ==
    /\ session = 3
    /\ clicks = 3
    /\ callState = "idle"
    /\ conversation = <<>>
    /\ timeouts = <<>>
    /\ utterances # <<>>

\* C15: a step that changes the orders keeps their number, order and ids, and
\* changes only the status of the order selected at that moment (and its
\* deliverySlot, when the outcome it commits is rescheduled); the same step
\* leaves the outcome non-null and the state resolved.
C15_OrdersFrame ==
    [][orders' # orders =>
        /\ Len(orders') = Len(orders)
        /\ selectedOrderId' = selectedOrderId
        /\ \A i \in 1..Len(orders) :
              /\ orders'[i].id = orders[i].id
              /\ orders[i].id # selectedOrderId => orders'[i] = orders[i]
              /\ orders'[i].deliverySlot # orders[i].deliverySlot
                    => callOutcome' = "rescheduled"
        /\ callOutcome' \in {"confirmed", "rescheduled", "cancelled",
                             "needs_support"}
        /\ callState' = "resolved"]_vars

\* a reschedule was committed to the second order after a call about the first
C15_Witness ==
    /\ Len(orders) = 2
    /\ selectedOrderId = orders[2].id
    /\ orders[2].status = "confirmed"
    /\ orders[2].deliverySlot = RESCHEDULE_OPTIONS[2]
    /\ orders[1] = initialOrders[1]
    /\ callOutcome = "rescheduled"
    /\ callState = "resolved"

\* C16: whenever the call state is resolved the outcome is one of confirmed,
\* rescheduled, cancelled and needs_support, never null.
C16_ResolvedHasOutcome ==
    callState = "resolved" =>
        callOutcome \in {"confirmed", "rescheduled", "cancelled", "needs_support"}

\* C17: a chosen reschedule slot implies that the outcome is rescheduled.
C17_SlotImpliesRescheduled ==
    rescheduleSlot # NoSlot => callOutcome = "rescheduled"

\* the follow-up of a query is pending
QueryPending ==
    \E i \in 1..Len(timeouts) :
        /\ timeouts[i].callback.kind = "line"
        /\ timeouts[i].callback.text.kind = "payment details"

\* how many follow-ups of a query the transcript holds
NumAnswered ==
    Cardinality({i \in 1..Len(conversation) :
                    conversation[i].message.kind = "payment details"})

\* C18: a query response appends the customer's line, leaves the outcome, the
\* slot, the state and every order as they are, and schedules exactly one more
\* timeout: an agent line flagged awaitingResponse and not markResolved, never a
\* completion; and in a call that is not reset, each pending follow-up is
\* delivered and then the state is awaiting_response again.
C18_QueryLoops ==
    /\ [][(Appended /\ Last(conversation').message.kind = customerLines.query)
            => /\ Last(conversation').speaker = "customer"
               /\ UNCHANGED <<callOutcome, rescheduleSlot, orders, callState>>
               /\ Len(timeouts') = Len(timeouts) + 1
               /\ NumComplete(timeouts') = NumComplete(timeouts)
               /\ Last(timeouts').callback.kind = "line"
               /\ Last(timeouts').callback.text.kind = "payment details"
               /\ Last(timeouts').callback.awaitingResponse = TRUE
               /\ Last(timeouts').callback.markResolved = FALSE]_vars
    /\ \A n \in 0..MaxCallClicks :
          (QueryPending /\ NumAnswered = n)
            ~> (NumAnswered > n /\ callState = "awaiting_response")

\* two queries in a row were answered and the call waits for the customer again
C18_Witness ==
    /\ NumAnswered = 2
    /\ callState = "awaiting_response"
    /\ callOutcome = Null
    /\ timeouts = <<>>
    /\ orders = initialOrders

\* C19: an order click while a call is in flight changes nothing; a step that
\* changes the selection starts not in flight and resets the call, leaving no
\* timeout pending and the orders as they are; and every pending completion is
\* about the selected order.
C19_SelectionGuard ==
    /\ [][(callInFlight /\ \E i \in 1..Len(orders) : orderOnClick(orders[i].id))
            => UNCHANGED vars]_vars
    /\ [][selectedOrderId' # selectedOrderId =>
            /\ callState \in {"idle", "resolved"}
            /\ timeouts' = <<>>
            /\ conversation' = <<>>
            /\ callState' = "idle"
            /\ callOutcome' = Null
            /\ rescheduleSlot' = NoSlot
            /\ orders' = orders]_vars
    /\ [](\A i \in 1..Len(timeouts) :
            timeouts[i].callback.kind = "complete"
                => timeouts[i].callback.order = selectedOrderId)

\* the selection changed from a resolved call, and the reset cancelled what
\* was still pending of it
C19_Witness ==
    /\ Len(orders) = 2
    /\ selectedOrderId = orders[2].id
    /\ cleared > 0
    /\ callState = "idle"
    /\ timeouts = <<>>

\* C20: while no order is selected, no step changes the transcript, the state,
\* the outcome, the slot, the pending timeouts or the orders, and the state
\* stays idle: every handler invoked returns at once.
C20_NoOrderNoOp ==
    /\ [][selectedOrder = Null =>
            UNCHANGED <<conversation, callState, callOutcome, rescheduleSlot,
                        timeouts, orders, selectedOrderId>>]_vars
    /\ [](selectedOrder = Null =>
            /\ callState = "idle"
            /\ conversation = <<>>
            /\ callOutcome = Null
            /\ timeouts = <<>>)

\* handlers were invoked with no order selected, and returned
C20_Witness ==
    /\ selectedOrder = Null
    /\ clicks = 2
    /\ callState = "idle"
    /\ conversation = <<>>
    /\ timeouts = <<>>

\* C21: a step that does not run resetCall leaves the transcript as it is or
\* appends exactly one entry to it, the entries before it unchanged and in
\* place; and only agent entries carry awaitingResponse.
C21_AppendOnly ==
    /\ [][~ResetStep => (conversation' = conversation \/ Appended)]_vars
    /\ [](\A i \in 1..Len(conversation) :
            conversation[i].awaitingResponse = TRUE
                => conversation[i].speaker = "agent")

\* a transcript of system, agent and customer entries grown one at a time
C21_Witness ==
    /\ Len(conversation) = 5
    /\ conversation[1].speaker = "system"
    /\ conversation[3].awaitingResponse = TRUE
    /\ conversation[4].speaker = "customer"
    /\ conversation[5].speaker = "agent"

\* C22: once an escalation has committed (state resolved, outcome
\* needs_support), no timeout and no utterance completion of the same session
\* changes the state, the outcome or an order.
C22_ResolvedIsTerminal ==
    [][(/\ callState = "resolved"
        /\ callOutcome = "needs_support"
        /\ CallbackOf(session))
        => UNCHANGED <<callState, callOutcome, orders>>]_vars

\* the state a line's flags name for the end of its playback
Target(markResolved, awaitingResponse) ==
    CASE markResolved -> "resolved"
      [] ~markResolved /\ awaitingResponse -> "awaiting_response"
      [] OTHER -> "speaking"

\* C23: the timeout of an agent line appends that one agent entry and, with
\* speech synthesis, sets the state to speaking; the end of an utterance sets
\* the state its line's flags name (resolved for markResolved, else
\* awaiting_response for awaitingResponse, else speaking); without speech
\* synthesis the timeout's step itself sets that state.
C23_LineDelivery ==
    /\ [][\A i \in 1..Len(timeouts) :
            (/\ Due(i)
             /\ timeouts[i].callback.kind = "line"
             /\ clicks' = clicks
             /\ timeouts' = Fired(i))
            => /\ Appended
               /\ Last(conversation').speaker = "agent"
               /\ Last(conversation').message = timeouts[i].callback.text
               /\ Last(conversation').awaitingResponse
                     = timeouts[i].callback.awaitingResponse
               /\ callState' =
                     IF isBrowser THEN "speaking"
                     ELSE Target(timeouts[i].callback.markResolved,
                                 timeouts[i].callback.awaitingResponse)]_vars
    /\ [][(utterances # <<>> /\ utterances' = Tail(utterances))
            => callState' = Target(Head(utterances).markResolved,
                                   Head(utterances).awaitingResponse)]_vars

\* the playback of a line flagged markResolved has ended, ahead of completeCall
C23_Witness ==
    /\ isBrowser
    /\ callState = "resolved"
    /\ callOutcome = Null
    /\ utterances = <<>>
    /\ conversation # <<>>
    /\ Last(conversation).message.kind = "cancel ack"

\* C24: at most one completion (a timeout that commits an outcome) is pending
\* at any time.
C24_OneCompletionPending == NumComplete(timeouts) <= 1

\* the status of the selected order, or none
SelectedStatus ==
    IF selectedOrder = Null THEN Null ELSE OrderOf(selectedOrder).status

\* C25: outcome confirmed goes with status confirmed of the selected order,
\* outcome cancelled with status cancelled, and outcome needs_support with
\* status requires_followup.
C25_OutcomeMatchesStatus ==
    /\ callOutcome = "confirmed" => SelectedStatus = "confirmed"
    /\ callOutcome = "cancelled" => SelectedStatus = "cancelled"
    /\ callOutcome = "needs_support" => SelectedStatus = "requires_followup"

\* the second order was cancelled by its call, after the selection changed
C25_Witness ==
    /\ Len(orders) = 2
    /\ selectedOrderId = orders[2].id
    /\ callOutcome = "cancelled"
    /\ orders[2].status = "cancelled"
    /\ orders[1].status = "pending"
    /\ session >= 2

\* the utterances that are playing
Playing == {i \in 1..Len(utterances) : utterances[i].playing}

\* C26: at most one utterance is playing; the step of a reset or of muting
\* leaves none playing.
C26_NoOverlap ==
    /\ [](Cardinality(Playing) <= 1)
    /\ [][(ResetStep \/ (~agentMuted /\ agentMuted')) => Playing' = {}]_vars

\* a new line started playing and halted the line that was still playing
C26_Witness ==
    /\ Len(utterances) = 2
    /\ ~utterances[1].playing
    /\ utterances[2].playing
    /\ utterances[1].session = utterances[2].session

\* C27: a step that runs resetCall leaves every order record and the mute flag
\* as they are, and the selection too unless the step is the click on an order
\* that sets it; so a call can start with the mute flag still set.
C27_ResetFrame ==
    [][ResetStep =>
        /\ orders' = orders
        /\ agentMuted' = agentMuted
        /\ (selectedOrderId' # selectedOrderId
              => \E i \in 1..Len(orders) : orderOnClick(orders[i].id))]_vars

\* a call was muted, and the call started after it starts with the flag set
C27_Witness ==
    /\ agentMuted
    /\ callState = "dialing"
    /\ session >= 2
    /\ Len(conversation) = 1

====
